---- MODULE Spec2Model ----
(***************************************************************************)
(* Range normalisation and repeated-pattern classification (day2.rs), the  *)
(* fresh-ingredient counts (day5.rs), the dial (day1.rs), the battery      *)
(* banks (day3.rs), the roll grid (day4.rs) and the day/part menu          *)
(* (main.rs) of the adventcode2025 crate.                                  *)
(*                                                                         *)
(* The crate computes on u64.  TLC's integers are 32 bits wide, so the     *)
(* machine word is scaled down to WordBits bits: every u64 value of the    *)
(* source is a value in 0..WordMax here, and every u64 addition and        *)
(* subtraction goes through AddU64 / SubU64, which keep that width.  An    *)
(* arithmetic result outside 0..WordMax panics when the crate is built     *)
(* with overflow checks (cargo's dev profile) and wraps modulo 2^WordBits  *)
(* when it is built without them (the release profile); which of the two   *)
(* the build is, is the variable overflow_checks, chosen in Init.          *)
(***************************************************************************)
EXTENDS Integers, Sequences, FiniteSets, TLC

VARIABLES
    overflow_checks,  \* TRUE: arithmetic overflow panics; FALSE: it wraps
    input,            \* the input text handed to a solve function
    ranges,           \* the raw range list (day 2: Vec<Range>)
    merged,           \* the result of merge_ranges on the raw range list
    remerged,         \* the result of a second merge_ranges call: on merged,
                      \* on a permutation of the raw list, or of the other day
    x,                \* the value of the last membership query
    found,            \* the result of the last membership query
    answer,           \* the last number returned or printed
    op,               \* the operation that acted last
    panicked,         \* the last operation aborted with a panic
    overflowed,       \* the last operation computed a value outside 0..WordMax
    lo,               \* in_merged_ranges, step by step: the local lo
    hi,               \* in_merged_ranges, step by step: the local hi
    visited,          \* sum_invalid_ids: the <<half, t>> its inner loop visited
    counted,          \* sum_invalid_ids: the numbers added to invalid_sum
    counted2,         \* sum_invalid_ids_part2: the numbers added to invalid_sum
    grid,             \* day 4: the grid of count_removable_rolls (Vec<Vec<char>>)
    total_removed,    \* day 4: the local total_removed of count_removable_rolls
    dial,             \* day 1: pos, zero_hits and the line reached, per mode
    digits_in,        \* day 3: the digit vector of one input line
    k_in,             \* day 3: the number of digits to select
    app,              \* main.rs: the App of the day/part menu
    run_result        \* main.rs: what run_app returned, Running before

vars == <<overflow_checks, input, ranges, merged, remerged, x, found, answer,
          op, panicked, overflowed, lo, hi, visited, counted, counted2,
          grid, total_removed, dial, digits_in, k_in, app, run_result>>

\* the state of days 1, 3, 4 and of the menu, which days 2 and 5 leave alone
rest_vars == <<grid, total_removed, dial, digits_in, k_in, app, run_result>>

\* run_app has not returned
Running == [kind |-> "running", day |-> 0, part2 |-> FALSE]

\* that state before any of those programs has run
RestInit ==
    /\ grid = <<>>
    /\ total_removed = 0
    /\ dial = <<>>
    /\ digits_in = <<>>
    /\ k_in = 0
    /\ app = <<>>
    /\ run_result = Running

----------------------------------------------------------------------------
(* Bounds of the model *)

\* width of the machine word that stands for u64
WordBits == 11
\* raw range lists of the unit-level specification hold at most MaxRanges ranges
MaxRanges == 3
\* range bounds of the unit-level specification: 0..MaxVal and WordMax
MaxVal == 1

WordMax == 2^WordBits - 1
WordMod == WordMax + 1

Vals == (0..MaxVal) \cup {WordMax}

Max(a, b) == IF a >= b THEN a ELSE b

----------------------------------------------------------------------------
(* u64 arithmetic: the exact result, and whether it left 0..WordMax *)

AddU64(a, b) == [val |-> (a + b) % WordMod, ovf |-> a + b > WordMax]

SubU64(a, b) == [val |-> (a - b) % WordMod, ovf |-> a < b]

----------------------------------------------------------------------------
(* day2.rs: struct Range, derived Ord (start, then end) *)

Range(s, e) == [start |-> s, end |-> e]

RangeLe(a, b) == a.start < b.start \/ (a.start = b.start /\ a.end <= b.end)

\* sorted.sort(): insertion of r into a sorted sequence, after its equals
RECURSIVE InsertRange(_, _)
InsertRange(s, r) ==
    IF s = <<>> THEN <<r>>
    ELSE IF RangeLe(s[Len(s)], r) THEN Append(s, r)
    ELSE Append(InsertRange(SubSeq(s, 1, Len(s) - 1), r), s[Len(s)])

RECURSIVE SortRanges(_)
SortRanges(s) ==
    IF s = <<>> THEN <<>>
    ELSE InsertRange(SortRanges(SubSeq(s, 1, Len(s) - 1)), s[Len(s)])

\* merged[last_idx].end.max(range.end)
ExtendEnd(last, range) == Max(last.end, range.end)

\* the loop of merge_ranges over sorted[i..], with the result built so far.
\* ovf: some end + 1 left 0..WordMax.
RECURSIVE MergeLoop(_, _, _, _)
MergeLoop(sorted, i, acc, ovf) ==
    IF i > Len(sorted) THEN [panic |-> FALSE, ovf |-> ovf, out |-> acc]
    ELSE LET range    == sorted[i]
             last_idx == Len(acc)
             succ     == AddU64(acc[last_idx].end, 1)
         IN  IF succ.ovf /\ overflow_checks
             THEN [panic |-> TRUE, ovf |-> TRUE, out |-> <<>>]
             ELSE IF range.start <= succ.val
             THEN MergeLoop(sorted, i + 1,
                      [acc EXCEPT ![last_idx].end = ExtendEnd(acc[last_idx], range)],
                      ovf \/ succ.ovf)
             ELSE MergeLoop(sorted, i + 1, Append(acc, range), ovf \/ succ.ovf)

\* mutant of merge_ranges: no early return for the empty list, so that
\* sorted[0] is read out of bounds
merge_ranges_unguarded(rs) ==
    IF rs = <<>> THEN [panic |-> TRUE, ovf |-> FALSE, out |-> <<>>]
    ELSE LET sorted == SortRanges(rs)
         IN  MergeLoop(sorted, 2, <<sorted[1]>>, FALSE)

\* mutant of merge_ranges: the loop starts one range too late
merge_ranges_skip(rs) ==
    IF rs = <<>> THEN [panic |-> FALSE, ovf |-> FALSE, out |-> <<>>]
    ELSE LET sorted == SortRanges(rs)
         IN  MergeLoop(sorted, 3, <<sorted[1]>>, FALSE)

merge_ranges(rs) ==
    IF rs = <<>> THEN [panic |-> FALSE, ovf |-> FALSE, out |-> <<>>]
    ELSE LET sorted == SortRanges(rs)
         IN  MergeLoop(sorted, 2, <<sorted[1]>>, FALSE)

\* the binary search of in_merged_ranges on [from, to): the whole loop
RECURSIVE SearchLoop(_, _, _, _)
SearchLoop(v, rs, from, to) ==
    IF from >= to THEN FALSE
    ELSE LET mid   == from + (to - from) \div 2
             range == rs[mid + 1]
         IN  IF v < range.start THEN SearchLoop(v, rs, from, mid)
             ELSE IF v > range.end THEN SearchLoop(v, rs, mid + 1, to)
             ELSE TRUE

in_merged_ranges(v, rs) == SearchLoop(v, rs, 0, Len(rs))

----------------------------------------------------------------------------
(* Text: a sequence of one-character strings *)

DigitChars == <<"0", "1", "2", "3", "4", "5", "6", "7", "8", "9">>

IsDigit(c) == \E d \in 1..10 : DigitChars[d] = c

DigitOf(c) == (CHOOSE d \in 1..10 : DigitChars[d] = c) - 1

\* char::is_whitespace, for the characters of the model's texts
IsWhite(c) == c \in {" ", "\n", "\t", "\r"}

\* u64::to_string
RECURSIVE to_string(_)
to_string(n) ==
    IF n < 10 THEN <<DigitChars[n + 1]>>
    ELSE Append(to_string(n \div 10), DigitChars[(n % 10) + 1])

\* the digits of str::parse::<u64>, accumulated with checked arithmetic
RECURSIVE ParseDigits(_, _, _)
ParseDigits(s, i, acc) ==
    IF i > Len(s) THEN [ok |-> TRUE, val |-> acc]
    ELSE IF ~IsDigit(s[i]) THEN [ok |-> FALSE, val |-> 0]
    ELSE LET next == acc * 10 + DigitOf(s[i])
         IN  IF next > WordMax THEN [ok |-> FALSE, val |-> 0]
             ELSE ParseDigits(s, i + 1, next)

\* str::parse::<u64>: an optional '+', then one or more digits, no overflow
ParseU64(s) ==
    LET digits == IF s # <<>> /\ s[1] = "+" THEN Tail(s) ELSE s
    IN  IF digits = <<>> THEN [ok |-> FALSE, val |-> 0]
        ELSE ParseDigits(digits, 1, 0)

\* the index of the first c in s, 0 when there is none
FirstIndex(s, c) ==
    IF \E i \in 1..Len(s) : s[i] = c
    THEN CHOOSE i \in 1..Len(s) : s[i] = c /\ \A j \in 1..(i - 1) : s[j] # c
    ELSE 0

\* str::split(c): the pieces between the occurrences of c
RECURSIVE Split(_, _)
Split(s, c) ==
    LET k == FirstIndex(s, c)
    IN  IF k = 0 THEN <<s>>
        ELSE <<SubSeq(s, 1, k - 1)>> \o Split(SubSeq(s, k + 1, Len(s)), c)

\* str::trim
RECURSIVE TrimStart(_)
TrimStart(s) ==
    IF s # <<>> /\ IsWhite(s[1]) THEN TrimStart(Tail(s)) ELSE s

RECURSIVE TrimEnd(_)
TrimEnd(s) ==
    IF s # <<>> /\ IsWhite(s[Len(s)]) THEN TrimEnd(SubSeq(s, 1, Len(s) - 1))
    ELSE s

Trim(s) == TrimEnd(TrimStart(s))

\* input.replace("\n", "").replace(" ", "")
Cleaned(s) == SelectSeq(s, LAMBDA c : c \notin {"\n", " "})

\* the body of parse_ranges' loop for one part: its ranges (none or one)
ParsePart(p) ==
    LET part == Trim(p)
        k    == FirstIndex(part, "-")
        a    == ParseU64(SubSeq(part, 1, k - 1))
        b    == ParseU64(SubSeq(part, k + 1, Len(part)))
    IN  IF part = <<>> THEN <<>>
        ELSE IF k = 0 THEN <<>>
        ELSE IF a.ok /\ b.ok THEN <<Range(a.val, b.val)>>
        ELSE <<>>

\* mutant of ParseParts: the first malformed part ends the parse
RECURSIVE ParsePartsStop(_, _)
ParsePartsStop(parts, i) ==
    IF i > Len(parts) THEN <<>>
    ELSE IF Trim(parts[i]) # <<>> /\ ParsePart(parts[i]) = <<>> THEN <<>>
    ELSE ParsePart(parts[i]) \o ParsePartsStop(parts, i + 1)

RECURSIVE ParseParts(_, _)
ParseParts(parts, i) ==
    IF i > Len(parts) THEN <<>>
    ELSE ParsePart(parts[i]) \o ParseParts(parts, i + 1)

parse_ranges(s) == ParseParts(Split(Cleaned(s), ","), 1)

----------------------------------------------------------------------------
(* day2.rs: the pattern predicate and the two aggregators *)

\* is_invalid_part2, the loop "for i in 1..repetitions": every later segment
\* equals the pattern (is_valid)
RECURSIVE SegmentLoop(_, _, _)
SegmentLoop(s, pattern_len, i) ==
    IF i >= Len(s) \div pattern_len THEN TRUE
    ELSE LET start == i * pattern_len
             end   == start + pattern_len
         IN  IF SubSeq(s, start + 1, end) # SubSeq(s, 1, pattern_len)
             THEN FALSE
             ELSE SegmentLoop(s, pattern_len, i + 1)

\* mutant of PatternLoop: the pattern lengths stop one short of len / 2
RECURSIVE PatternLoopShort(_, _)
PatternLoopShort(s, pattern_len) ==
    IF pattern_len > (Len(s) \div 2) - 1 THEN FALSE
    ELSE IF Len(s) % pattern_len # 0 THEN PatternLoopShort(s, pattern_len + 1)
    ELSE IF Len(s) \div pattern_len < 2 THEN PatternLoopShort(s, pattern_len + 1)
    ELSE IF SegmentLoop(s, pattern_len, 1) THEN TRUE
    ELSE PatternLoopShort(s, pattern_len + 1)

\* is_invalid_part2, the loop "for pattern_len in 1..=(len / 2)" from
\* pattern_len on
RECURSIVE PatternLoop(_, _)
PatternLoop(s, pattern_len) ==
    IF pattern_len > Len(s) \div 2 THEN FALSE
    ELSE IF Len(s) % pattern_len # 0 THEN PatternLoop(s, pattern_len + 1)
    ELSE IF Len(s) \div pattern_len < 2 THEN PatternLoop(s, pattern_len + 1)
    ELSE IF SegmentLoop(s, pattern_len, 1) THEN TRUE
    ELSE PatternLoop(s, pattern_len + 1)

is_invalid_part2(n) == PatternLoop(to_string(n), 1)

\* is_invalid_part2 is pure: the u64 values on which it is true, computed once
Part2Hits == {n \in 0..WordMax : is_invalid_part2(n)}

\* 10u64.pow(k)
RECURSIVE PowU64(_)
PowU64(k) ==
    IF k = 0 THEN [val |-> 1, ovf |-> FALSE]
    ELSE LET p == PowU64(k - 1)
         IN  [val |-> (p.val * 10) % WordMod,
              ovf |-> p.ovf \/ p.val * 10 > WordMax]

\* merged.iter().map(|r| r.end).max().unwrap_or(0)
MaxEnd(rs) ==
    IF rs = <<>> THEN 0
    ELSE CHOOSE m \in {rs[i].end : i \in 1..Len(rs)} :
             \A i \in 1..Len(rs) : rs[i].end <= m

\* The running sum "invalid_sum += num" over the numbers of seq.  Every
\* addend is >= 0, so the partial sums only grow: some addition leaves
\* 0..WordMax exactly when the exact total does, and the wrapped sum is the
\* total modulo 2^WordBits.  Total splits the sequence in halves.
RECURSIVE Total(_, _, _)
Total(seq, from, to) ==
    IF from > to THEN 0
    ELSE IF from = to THEN seq[from]
    ELSE LET mid == (from + to) \div 2
         IN  Total(seq, from, mid) + Total(seq, mid + 1, to)

AddAll(seq, ovf) ==
    LET total == Total(seq, 1, Len(seq))
    IN  IF total > WordMax /\ overflow_checks
        THEN [panic |-> TRUE, ovf |-> TRUE, out |-> 0]
        ELSE [panic |-> FALSE, ovf |-> ovf \/ total > WordMax,
              out |-> total % WordMod]

\* the elements of a finite set of numbers in ascending order
Ascending(S) ==
    [i \in 1..Cardinality(S) |->
        CHOOSE v \in S : Cardinality({w \in S : w < v}) = i - 1]

\* format!("{}{}", s, s).parse::<u64>() for s = t.to_string()
Doubled(t) == ParseU64(to_string(t) \o to_string(t))

\* the largest half length of sum_invalid_ids: half the digits of u64::MAX
MaxHalf == Len(to_string(WordMax)) \div 2

\* Doubled is pure: its value on every t of at most MaxHalf digits, computed
\* once
DoubledTable == [t \in 0..(10^MaxHalf - 1) |-> Doubled(t)]

\* The values of t the loop "for t in start..end" of sum_invalid_ids visits
\* for one half length: the loop breaks at the first t whose doubled value
\* parses and exceeds max_upper.
Visited(half, max_upper) ==
    LET start == PowU64(half - 1).val
        end   == PowU64(half).val
        stop  == {t \in start..(end - 1) :
                     DoubledTable[t].ok /\ DoubledTable[t].val > max_upper}
        break == IF stop = {} THEN end
                 ELSE CHOOSE t \in stop : \A u \in stop : t <= u
    IN  start..(break - 1)

\* the numbers the loop of one half length adds to invalid_sum, in the order
\* it adds them
LengthHits(half, max_upper, mrg) ==
    LET ts == {t \in Visited(half, max_upper) :
                  /\ DoubledTable[t].ok
                  /\ DoubledTable[t].val <= max_upper
                  /\ in_merged_ranges(DoubledTable[t].val, mrg)}
        seq == Ascending(ts)
    IN  [i \in 1..Len(seq) |-> DoubledTable[seq[i]].val]

\* the loop "for total_len in (2..=max_digits).step_by(2)": the numbers it
\* adds for the lengths from total_len on
RECURSIVE LengthLoop(_, _, _, _)
LengthLoop(total_len, max_digits, max_upper, mrg) ==
    IF total_len > max_digits THEN <<>>
    ELSE LengthHits(total_len \div 2, max_upper, mrg)
             \o LengthLoop(total_len + 2, max_digits, max_upper, mrg)

\* some 10u64.pow of the lengths 2, 4, .. max_digits leaves 0..WordMax
PowOverflows(max_digits) ==
    \E half \in 1..(max_digits \div 2) : PowU64(half).ovf

sum_invalid_ids(ranges_str) ==
    LET rs == parse_ranges(ranges_str)
        m  == merge_ranges(rs)
        max_upper  == MaxEnd(m.out)
        max_digits == Len(to_string(max_upper))
        povf       == PowOverflows(max_digits)
    IN  IF rs = <<>> THEN [panic |-> FALSE, ovf |-> FALSE, out |-> 0]
        ELSE IF m.panic THEN [panic |-> TRUE, ovf |-> TRUE, out |-> 0]
        ELSE IF povf /\ overflow_checks
        THEN [panic |-> TRUE, ovf |-> TRUE, out |-> 0]
        ELSE AddAll(LengthLoop(2, max_digits, max_upper, m.out),
                    m.ovf \/ povf)

\* the loop "for range in &merged" of sum_invalid_ids_part2 from range i on:
\* "for num in range.start..=range.end" adds the numbers of the range that
\* satisfy is_invalid_part2, in ascending order
RECURSIVE ScanLoop(_, _)
ScanLoop(mrg, i) ==
    IF i > Len(mrg) THEN <<>>
    ELSE Ascending({num \in Part2Hits :
                       mrg[i].start <= num /\ num <= mrg[i].end})
             \o ScanLoop(mrg, i + 1)

sum_invalid_ids_part2(ranges_str) ==
    LET rs == parse_ranges(ranges_str)
        m  == merge_ranges(rs)
    IN  IF rs = <<>> THEN [panic |-> FALSE, ovf |-> FALSE, out |-> 0]
        ELSE IF m.panic THEN [panic |-> TRUE, ovf |-> TRUE, out |-> 0]
        ELSE AddAll(ScanLoop(m.out, 1), m.ovf)

\* The numbers of seq that "invalid_sum += num" has added when the function
\* ends: all of them, or, when the build checks overflow, those before the
\* addition that panics.
Added(seq) ==
    IF overflow_checks
    THEN SubSeq(seq, 1, Cardinality({j \in 1..Len(seq) :
                                        Total(seq, 1, j) <= WordMax}))
    ELSE seq

\* the <<half, t>> the two loops of sum_invalid_ids visit when no addition
\* panics
Candidates(max_digits, max_upper) ==
    UNION {{<<half, t>> : t \in Visited(half, max_upper)} :
               half \in 1..(max_digits \div 2)}

\* The locals of sum_invalid_ids when it ends: the merged set, the <<half, t>>
\* visited and the numbers added.  The doubled values ascend in the order of
\* the visit, so an addition that panics on the number v ends the visit at
\* the <<half, t>> whose doubled value is v.
sum_invalid_ids_locals(ranges_str) ==
    LET rs == parse_ranges(ranges_str)
        m  == merge_ranges(rs)
        max_upper  == MaxEnd(m.out)
        max_digits == Len(to_string(max_upper))
        seq   == LengthLoop(2, max_digits, max_upper, m.out)
        added == Added(seq)
        all   == Candidates(max_digits, max_upper)
    IN  IF rs = <<>> \/ m.panic
        THEN [merged |-> <<>>, visited |-> {}, counted |-> <<>>]
        ELSE IF PowOverflows(max_digits) /\ overflow_checks
        THEN [merged |-> m.out, visited |-> {}, counted |-> <<>>]
        ELSE [merged  |-> m.out,
              visited |-> IF Len(added) = Len(seq) THEN all
                          ELSE {c \in all :
                                   c[2] * 10^c[1] + c[2] <= seq[Len(added) + 1]},
              counted |-> added]

\* the locals of sum_invalid_ids_part2 when it ends: the merged set and the
\* numbers added
sum_invalid_ids_part2_locals(ranges_str) ==
    LET rs == parse_ranges(ranges_str)
        m  == merge_ranges(rs)
    IN  IF rs = <<>> \/ m.panic
        THEN [merged |-> <<>>, counted |-> <<>>]
        ELSE [merged |-> m.out, counted |-> Added(ScanLoop(m.out, 1))]

----------------------------------------------------------------------------
(* day5.rs: ranges are (start, end) tuples *)

\* str::lines: the pieces between line feeds, without a final empty piece;
\* a piece a line feed ends loses a carriage return before that line feed
Lines(s) ==
    LET parts == Split(s, "\n")
        n     == IF parts[Len(parts)] = <<>> THEN Len(parts) - 1 ELSE Len(parts)
    IN  [i \in 1..n |->
            IF i < Len(parts) /\ parts[i] # <<>> /\ parts[i][Len(parts[i])] = "\r"
            THEN SubSeq(parts[i], 1, Len(parts[i]) - 1) ELSE parts[i]]

\* lines.iter().position(|line| line.trim().is_empty()), 0 for None
BlankLineIdx(lines) ==
    IF \E i \in 1..Len(lines) : Trim(lines[i]) = <<>>
    THEN CHOOSE i \in 1..Len(lines) :
             /\ Trim(lines[i]) = <<>>
             /\ \A j \in 1..(i - 1) : Trim(lines[j]) # <<>>
    ELSE 0

\* parse_range: the ranges of one line (none or one)
parse_range(line) ==
    LET parts == Split(line, "-")
        start == ParseU64(parts[1])
        end   == ParseU64(parts[2])
    IN  IF Len(parts) = 2 /\ start.ok /\ end.ok
        THEN <<<<start.val, end.val>>>>
        ELSE <<>>

RECURSIVE ParseRangeLines(_, _, _)
ParseRangeLines(lines, i, n) ==
    IF i > n THEN <<>>
    ELSE parse_range(lines[i]) \o ParseRangeLines(lines, i + 1, n)

is_fresh(id, rs) == \E i \in 1..Len(rs) : id >= rs[i][1] /\ id <= rs[i][2]

\* ranges.sort_by_key(|&(start, _)| start): stable, by start alone
RECURSIVE InsertByStart(_, _)
InsertByStart(s, r) ==
    IF s = <<>> THEN <<r>>
    ELSE IF s[Len(s)][1] <= r[1] THEN Append(s, r)
    ELSE Append(InsertByStart(SubSeq(s, 1, Len(s) - 1), r), s[Len(s)])

RECURSIVE SortByStart(_)
SortByStart(s) ==
    IF s = <<>> THEN <<>>
    ELSE InsertByStart(SortByStart(SubSeq(s, 1, Len(s) - 1)), s[Len(s)])

\* the loop of day 5's merge_ranges over ranges[i..], with the accumulator
\* current and the ranges emitted so far
RECURSIVE Day5MergeLoop(_, _, _, _, _)
Day5MergeLoop(sorted, i, current, acc, ovf) ==
    IF i > Len(sorted)
    THEN [panic |-> FALSE, ovf |-> ovf, out |-> Append(acc, current)]
    ELSE LET start == sorted[i][1]
             end   == sorted[i][2]
             succ  == AddU64(current[2], 1)
         IN  IF succ.ovf /\ overflow_checks
             THEN [panic |-> TRUE, ovf |-> TRUE, out |-> <<>>]
             ELSE IF start <= succ.val
             THEN Day5MergeLoop(sorted, i + 1,
                      <<current[1], Max(current[2], end)>>, acc,
                      ovf \/ succ.ovf)
             ELSE Day5MergeLoop(sorted, i + 1, <<start, end>>,
                      Append(acc, current), ovf \/ succ.ovf)

day5_merge_ranges(rs) ==
    IF rs = <<>> THEN [panic |-> FALSE, ovf |-> FALSE, out |-> <<>>]
    ELSE LET sorted == SortByStart(rs)
         IN  Day5MergeLoop(sorted, 2, sorted[1], <<>>, FALSE)

\* the ranges solve_part1 and solve_part2 parse: the lines before the blank one
day5_ranges(s) ==
    LET lines == Lines(s)
    IN  ParseRangeLines(lines, 1, BlankLineIdx(lines) - 1)

\* the loop over the lines after the blank one of solve_part1
RECURSIVE FreshLoop(_, _, _)
FreshLoop(lines, i, rs) ==
    IF i > Len(lines) THEN 0
    ELSE LET id == ParseU64(Trim(lines[i]))
         IN  (IF Trim(lines[i]) # <<>> /\ id.ok /\ is_fresh(id.val, rs)
              THEN 1 ELSE 0) + FreshLoop(lines, i + 1, rs)

solve_part1(s) ==
    LET lines == Lines(s)
        blank_line_idx == BlankLineIdx(lines)
    IN  IF blank_line_idx = 0 THEN [panic |-> TRUE, ovf |-> FALSE, out |-> 0]
        ELSE [panic |-> FALSE, ovf |-> FALSE,
              out |-> FreshLoop(lines, blank_line_idx + 1, day5_ranges(s))]

\* merged_ranges.iter().map(|&(start, end)| end - start + 1).sum()
RECURSIVE CountLoop(_, _, _, _)
CountLoop(mrg, i, sum, ovf) ==
    IF i > Len(mrg) THEN [panic |-> FALSE, ovf |-> ovf, out |-> sum]
    ELSE LET d == SubU64(mrg[i][2], mrg[i][1])
             n == AddU64(d.val, 1)
             a == AddU64(sum, n.val)
         IN  IF (d.ovf \/ n.ovf \/ a.ovf) /\ overflow_checks
             THEN [panic |-> TRUE, ovf |-> TRUE, out |-> 0]
             ELSE CountLoop(mrg, i + 1, a.val,
                            ovf \/ d.ovf \/ n.ovf \/ a.ovf)

solve_part2(s) ==
    LET lines == Lines(s)
        blank_line_idx == BlankLineIdx(lines)
        m == day5_merge_ranges(day5_ranges(s))
    IN  IF blank_line_idx = 0 THEN [panic |-> TRUE, ovf |-> FALSE, out |-> 0]
        ELSE IF m.panic THEN [panic |-> TRUE, ovf |-> TRUE, out |-> 0]
        ELSE CountLoop(m.out, 1, 0, m.ovf)

AsTuples(rs) == [i \in 1..Len(rs) |-> <<rs[i].start, rs[i].end>>]

AsRanges(ts) == [i \in 1..Len(ts) |-> Range(ts[i][1], ts[i][2])]

----------------------------------------------------------------------------
(* Unit-level specification: the functions applied to a raw range list *)

Pairs == {Range(s, e) : s \in Vals, e \in Vals}

RangeLists == UNION {[1..n -> Pairs] : n \in 0..MaxRanges}

Init ==
    /\ overflow_checks \in BOOLEAN
    /\ ranges \in RangeLists
    /\ input = <<>>
    /\ merged = <<>>
    /\ remerged = <<>>
    /\ x = 0
    /\ found = FALSE
    /\ answer = 0
    /\ op = "init"
    /\ panicked = FALSE
    /\ overflowed = FALSE
    /\ lo = 0
    /\ hi = 0
    /\ visited = {}
    /\ counted = <<>>
    /\ counted2 = <<>>
    /\ RestInit

\* merge_ranges(&ranges)
MergeRanges ==
    /\ op = "init"
    /\ LET r == merge_ranges(ranges)
       IN  /\ merged' = r.out
           /\ panicked' = r.panic
           /\ overflowed' = r.ovf
    /\ op' = "merge_ranges"
    /\ UNCHANGED <<overflow_checks, input, ranges, remerged, x, found, answer>>
    /\ UNCHANGED <<lo, hi, visited, counted, counted2>>
    /\ UNCHANGED rest_vars

\* in_merged_ranges(v, &merged) on the merged set
InMergedRanges ==
    /\ op = "merge_ranges"
    /\ ~panicked
    /\ \E v \in Vals :
        /\ x' = v
        /\ found' = in_merged_ranges(v, merged)
    /\ op' = "in_merged_ranges"
    /\ UNCHANGED <<overflow_checks, input, ranges, merged, remerged, answer,
                   panicked, overflowed>>
    /\ UNCHANGED <<lo, hi, visited, counted, counted2>>
    /\ UNCHANGED rest_vars

\* merge_ranges(&merged): the merged set merged once more
MergeAgain ==
    /\ op = "merge_ranges"
    /\ ~panicked
    /\ LET r == merge_ranges(merged)
       IN  /\ remerged' = r.out
           /\ panicked' = r.panic
           /\ overflowed' = r.ovf
    /\ op' = "merge_again"
    /\ UNCHANGED <<overflow_checks, input, ranges, merged, x, found, answer>>
    /\ UNCHANGED <<lo, hi, visited, counted, counted2>>
    /\ UNCHANGED rest_vars

\* day 5's merge_ranges(&mut ranges): sorts the caller's list in place
Day5MergeRanges ==
    /\ op = "init"
    /\ LET r == day5_merge_ranges(AsTuples(ranges))
       IN  /\ merged' = AsRanges(r.out)
           /\ panicked' = r.panic
           /\ overflowed' = r.ovf
    /\ ranges' = AsRanges(SortByStart(AsTuples(ranges)))
    /\ op' = "day5_merge_ranges"
    /\ UNCHANGED <<overflow_checks, input, remerged, x, found, answer>>
    /\ UNCHANGED <<lo, hi, visited, counted, counted2>>
    /\ UNCHANGED rest_vars

\* day 5's merge_ranges on the merged set it returned
Day5MergeAgain ==
    /\ op = "day5_merge_ranges"
    /\ ~panicked
    /\ LET r == day5_merge_ranges(AsTuples(merged))
       IN  /\ remerged' = AsRanges(r.out)
           /\ panicked' = r.panic
           /\ overflowed' = r.ovf
    /\ op' = "day5_merge_again"
    /\ UNCHANGED <<overflow_checks, input, ranges, merged, x, found, answer>>
    /\ UNCHANGED <<lo, hi, visited, counted, counted2>>
    /\ UNCHANGED rest_vars

\* the orders of a list of n elements
Perms(n) == {p \in [1..n -> 1..n] : \A i, j \in 1..n : p[i] = p[j] => i = j}

Permuted(rs, p) == [i \in 1..Len(rs) |-> rs[p[i]]]

\* merge_ranges(&permuted) of day 2 on the raw list in another order
MergePermuted ==
    /\ op = "merge_ranges"
    /\ ~panicked
    /\ \E p \in Perms(Len(ranges)) :
           LET r == merge_ranges(Permuted(ranges, p))
           IN  /\ remerged' = r.out
               /\ panicked' = r.panic
               /\ overflowed' = r.ovf
    /\ op' = "merge_permuted"
    /\ UNCHANGED <<overflow_checks, input, ranges, merged, x, found, answer>>
    /\ UNCHANGED <<lo, hi, visited, counted, counted2>>
    /\ UNCHANGED rest_vars

\* merge_ranges(&mut permuted) of day 5 on the raw list in another order
Day5MergePermuted ==
    /\ op = "day5_merge_ranges"
    /\ ~panicked
    /\ \E p \in Perms(Len(ranges)) :
           LET r == day5_merge_ranges(AsTuples(Permuted(ranges, p)))
           IN  /\ remerged' = AsRanges(r.out)
               /\ panicked' = r.panic
               /\ overflowed' = r.ovf
    /\ op' = "day5_merge_permuted"
    /\ UNCHANGED <<overflow_checks, input, ranges, merged, x, found, answer>>
    /\ UNCHANGED <<lo, hi, visited, counted, counted2>>
    /\ UNCHANGED rest_vars

\* merge_ranges of day 5 on the raw list day 2's merge_ranges has merged
Day5MergeSame ==
    /\ op = "merge_ranges"
    /\ ~panicked
    /\ LET r == day5_merge_ranges(AsTuples(ranges))
       IN  /\ remerged' = AsRanges(r.out)
           /\ panicked' = r.panic
           /\ overflowed' = r.ovf
    /\ op' = "day5_merge_same"
    /\ UNCHANGED <<overflow_checks, input, ranges, merged, x, found, answer>>
    /\ UNCHANGED <<lo, hi, visited, counted, counted2>>
    /\ UNCHANGED rest_vars

Next ==
    \/ MergeRanges
    \/ InMergedRanges
    \/ MergeAgain
    \/ Day5MergeRanges
    \/ Day5MergeAgain

Spec == Init /\ [][Next]_vars

\* Order specification: the two merges on a raw list, on its permutations,
\* and side by side
NextOrder ==
    \/ MergeRanges
    \/ Day5MergeRanges
    \/ MergePermuted
    \/ Day5MergePermuted
    \/ Day5MergeSame

SpecOrder == Init /\ [][NextOrder]_vars

----------------------------------------------------------------------------
(* Entry-point specification: the solve functions applied to an input text *)

\* the input texts hold at most MaxTokens range tokens
MaxTokens == 2

\* the bounds of the generated range tokens
SolveVals == {1, 111, WordMax}

RECURSIVE Join(_, _)
Join(toks, sep) ==
    IF toks = <<>> THEN <<>>
    ELSE IF Len(toks) = 1 THEN toks[1]
    ELSE toks[1] \o <<sep>> \o Join(Tail(toks), sep)

RECURSIVE EachLine(_)
EachLine(toks) ==
    IF toks = <<>> THEN <<>>
    ELSE toks[1] \o <<"\n">> \o EachLine(Tail(toks))

\* "start-end" tokens, and one token that is no range
Tokens ==
    {to_string(a) \o <<"-">> \o to_string(b) : a \in SolveVals, b \in SolveVals}
        \cup {<<"x">>}

TokenLists == UNION {[1..n -> Tokens] : n \in 0..MaxTokens}

\* the identifier lines of the generated day 5 texts
IdText == EachLine([i \in 1..Cardinality(SolveVals) |-> to_string(Ascending(SolveVals)[i])])

\* the example input of day2.rs: 11-22,95-115,998-1012
ScenarioC ==
    <<"1", "1", "-", "2", "2", ",", "9", "5", "-", "1", "1", "5", ",", "9",
      "9", "8", "-", "1", "0", "1", "2">>

\* the example input of day5.rs: ranges 3-5, 10-14, 16-20, 12-18, a blank
\* line, identifiers 1, 5, 8, 11, 17, 32
ScenarioA ==
    <<"3", "-", "5", "\n", "1", "0", "-", "1", "4", "\n", "1", "6", "-",
      "2", "0", "\n", "1", "2", "-", "1", "8", "\n", "\n", "1", "\n", "5",
      "\n", "8", "\n", "1", "1", "\n", "1", "7", "\n", "3", "2", "\n">>

\* day 2 texts (comma separated), day 5 texts (one range a line, a blank
\* line, one identifier a line), day 5 texts without the blank line
SolveInputs ==
    {Join(toks, ",") : toks \in TokenLists}
        \cup {EachLine(toks) \o <<"\n">> \o IdText : toks \in TokenLists}
        \cup {EachLine(toks) : toks \in TokenLists}
        \cup {ScenarioC, ScenarioA}

InitSolve ==
    /\ overflow_checks \in BOOLEAN
    /\ input \in SolveInputs
    /\ ranges = <<>>
    /\ merged = <<>>
    /\ remerged = <<>>
    /\ x = 0
    /\ found = FALSE
    /\ answer = 0
    /\ op = "init"
    /\ panicked = FALSE
    /\ overflowed = FALSE
    /\ lo = 0
    /\ hi = 0
    /\ visited = {}
    /\ counted = <<>>
    /\ counted2 = <<>>
    /\ RestInit

\* day2::solve(input, false)
Day2Part1 ==
    /\ op = "init"
    /\ LET r == sum_invalid_ids(input)
           l == sum_invalid_ids_locals(input)
       IN  /\ answer' = r.out
           /\ panicked' = r.panic
           /\ overflowed' = r.ovf
           /\ merged' = l.merged
           /\ visited' = l.visited
           /\ counted' = l.counted
    /\ ranges' = parse_ranges(input)
    /\ op' = "sum_invalid_ids"
    /\ UNCHANGED <<overflow_checks, input, remerged, x, found>>
    /\ UNCHANGED <<lo, hi, counted2>>
    /\ UNCHANGED rest_vars

\* day2::solve(input, true), as the first run on the input or after the run
\* of part 1 on it
Day2Part2 ==
    /\ op \in {"init", "sum_invalid_ids"}
    /\ ~panicked
    /\ LET r == sum_invalid_ids_part2(input)
           l == sum_invalid_ids_part2_locals(input)
       IN  /\ answer' = r.out
           /\ panicked' = r.panic
           /\ overflowed' = r.ovf
           /\ merged' = l.merged
           /\ counted2' = l.counted
    /\ ranges' = parse_ranges(input)
    /\ op' = "sum_invalid_ids_part2"
    /\ UNCHANGED <<overflow_checks, input, remerged, x, found>>
    /\ UNCHANGED <<lo, hi, visited, counted>>
    /\ UNCHANGED rest_vars

\* day5::solve(input, false)
Day5Part1 ==
    /\ op = "init"
    /\ LET r == solve_part1(input)
       IN  /\ answer' = r.out
           /\ panicked' = r.panic
           /\ overflowed' = r.ovf
    /\ ranges' = day5_ranges(input)
    /\ op' = "solve_part1"
    /\ UNCHANGED <<overflow_checks, input, merged, remerged, x, found>>
    /\ UNCHANGED <<lo, hi, visited, counted, counted2>>
    /\ UNCHANGED rest_vars

\* day5::solve(input, true)
Day5Part2 ==
    /\ op = "init"
    /\ LET r == solve_part2(input)
       IN  /\ answer' = r.out
           /\ panicked' = r.panic
           /\ overflowed' = r.ovf
    /\ ranges' = day5_ranges(input)
    /\ op' = "solve_part2"
    /\ UNCHANGED <<overflow_checks, input, merged, remerged, x, found>>
    /\ UNCHANGED <<lo, hi, visited, counted, counted2>>
    /\ UNCHANGED rest_vars

\* parse_ranges(input)
ParseRanges ==
    /\ op = "init"
    /\ ranges' = parse_ranges(input)
    /\ op' = "parse_ranges"
    /\ UNCHANGED <<overflow_checks, input, merged, remerged, x, found, answer,
                   panicked, overflowed>>
    /\ UNCHANGED <<lo, hi, visited, counted, counted2>>
    /\ UNCHANGED rest_vars

\* merge_ranges(&ranges) on the list parse_ranges returned
MergeParsed ==
    /\ op = "parse_ranges"
    /\ LET r == merge_ranges(ranges)
       IN  /\ merged' = r.out
           /\ panicked' = r.panic
           /\ overflowed' = r.ovf
    /\ op' = "merge_parsed"
    /\ UNCHANGED <<overflow_checks, input, ranges, remerged, x, found, answer>>
    /\ UNCHANGED <<lo, hi, visited, counted, counted2>>
    /\ UNCHANGED rest_vars

NextSolve ==
    \/ Day2Part1
    \/ Day2Part2
    \/ Day5Part1
    \/ Day5Part2
    \/ ParseRanges
    \/ MergeParsed

SpecSolve == InitSolve /\ [][NextSolve]_vars

----------------------------------------------------------------------------
(* Parser specification: parse_ranges and the aggregators on every text *)

\* the texts of the parser specification hold at most MaxText characters
MaxText == 5

ParseChars == {"1", "-", ",", "+", "x", " "}

Texts == UNION {[1..n -> ParseChars] : n \in 0..MaxText}

InitParse ==
    /\ overflow_checks \in BOOLEAN
    /\ input \in Texts
    /\ ranges = <<>>
    /\ merged = <<>>
    /\ remerged = <<>>
    /\ x = 0
    /\ found = FALSE
    /\ answer = 0
    /\ op = "init"
    /\ panicked = FALSE
    /\ overflowed = FALSE
    /\ lo = 0
    /\ hi = 0
    /\ visited = {}
    /\ counted = <<>>
    /\ counted2 = <<>>
    /\ RestInit

NextParse == ParseRanges \/ Day2Part1 \/ Day2Part2

SpecParse == InitParse /\ [][NextParse]_vars

----------------------------------------------------------------------------
(* Whitespace specification: parse_ranges on a text and on the same text
   with one more whitespace character *)

WhiteChars == {" ", "\n", "\t", "\r"}

\* the text s with the character c put in after its first k characters
Insert(s, k, c) == SubSeq(s, 1, k) \o <<c>> \o SubSeq(s, k + 1, Len(s))

InitSpace ==
    /\ overflow_checks \in BOOLEAN
    /\ input \in {Join(toks, ",") : toks \in TokenLists}
    /\ ranges = <<>>
    /\ merged = <<>>
    /\ remerged = <<>>
    /\ x = 0
    /\ found = FALSE
    /\ answer = 0
    /\ op = "init"
    /\ panicked = FALSE
    /\ overflowed = FALSE
    /\ lo = 0
    /\ hi = 0
    /\ visited = {}
    /\ counted = <<>>
    /\ counted2 = <<>>
    /\ RestInit

\* parse_ranges on the text of the last parse with one whitespace character
\* more
ParseSpaced ==
    /\ op = "parse_ranges"
    /\ \E k \in 0..Len(input), c \in WhiteChars :
           /\ input' = Insert(input, k, c)
           /\ ranges' = parse_ranges(Insert(input, k, c))
    /\ op' = "parse_spaced"
    /\ UNCHANGED <<overflow_checks, merged, remerged, x, found, answer,
                   panicked, overflowed>>
    /\ UNCHANGED <<lo, hi, visited, counted, counted2>>
    /\ UNCHANGED rest_vars

NextSpace == ParseRanges \/ ParseSpaced

SpecSpace == InitSpace /\ [][NextSpace]_vars

----------------------------------------------------------------------------
(* Predicate specification: is_invalid_part2 applied to a number *)

\* every value of the scaled word, and the two longer examples of the doc
\* comments (the predicate reads nothing but the decimal digits)
PredInputs == (0..WordMax) \cup {12341234, 1212121212}

InitPred ==
    /\ overflow_checks \in BOOLEAN
    /\ input = <<>>
    /\ ranges = <<>>
    /\ merged = <<>>
    /\ remerged = <<>>
    /\ x \in PredInputs
    /\ found = FALSE
    /\ answer = 0
    /\ op = "init"
    /\ panicked = FALSE
    /\ overflowed = FALSE
    /\ lo = 0
    /\ hi = 0
    /\ visited = {}
    /\ counted = <<>>
    /\ counted2 = <<>>
    /\ RestInit

\* is_invalid_part2(x)
IsInvalidPart2 ==
    /\ op = "init"
    /\ found' = is_invalid_part2(x)
    /\ op' = "is_invalid_part2"
    /\ UNCHANGED <<overflow_checks, input, ranges, merged, remerged, x, answer,
                   panicked, overflowed>>
    /\ UNCHANGED <<lo, hi, visited, counted, counted2>>
    /\ UNCHANGED rest_vars

NextPred == IsInvalidPart2

SpecPred == InitPred /\ [][NextPred]_vars

----------------------------------------------------------------------------
(* Search specification: the loop of in_merged_ranges, one iteration a step.
   op is the position in the function: "search" at the head of the loop,
   "returned" after a return.  The loop is sequential code: it takes its
   next step as long as it has one (weak fairness). *)

\* the slices searched: any list of ranges with bounds in 0..MaxVal, merged
\* or not
SearchSlices ==
    UNION {[1..n -> {Range(s, e) : s \in 0..MaxVal, e \in 0..MaxVal}] :
               n \in 0..MaxRanges}

\* let mut lo = 0; let mut hi = merged_ranges.len();
InitSearch ==
    /\ overflow_checks \in BOOLEAN
    /\ input = <<>>
    /\ ranges \in SearchSlices
    /\ merged = <<>>
    /\ remerged = <<>>
    /\ x \in Vals
    /\ found = FALSE
    /\ answer = 0
    /\ op = "search"
    /\ panicked = FALSE
    /\ overflowed = FALSE
    /\ lo = 0
    /\ hi = Len(ranges)
    /\ visited = {}
    /\ counted = <<>>
    /\ counted2 = <<>>
    /\ RestInit

\* let mid = lo + (hi - lo) / 2;
Mid == lo + (hi - lo) \div 2

\* mutant of SearchStep: the right half starts at mid, not at mid + 1
SearchStepNoAdvance ==
    /\ op = "search"
    /\ lo < hi
    /\ LET range == ranges[Mid + 1]
       IN  IF x < range.start
           THEN hi' = Mid /\ UNCHANGED <<lo, found, op>>
           ELSE IF x > range.end
           THEN lo' = Mid /\ UNCHANGED <<hi, found, op>>
           ELSE found' = TRUE /\ op' = "returned" /\ UNCHANGED <<lo, hi>>
    /\ UNCHANGED <<overflow_checks, input, ranges, merged, remerged, x, answer,
                   panicked, overflowed, visited, counted, counted2>>
    /\ UNCHANGED rest_vars

\* one iteration of "while lo < hi"
SearchStep ==
    /\ op = "search"
    /\ lo < hi
    /\ LET range == ranges[Mid + 1]
       IN  IF x < range.start
           THEN hi' = Mid /\ UNCHANGED <<lo, found, op>>
           ELSE IF x > range.end
           THEN lo' = Mid + 1 /\ UNCHANGED <<hi, found, op>>
           ELSE found' = TRUE /\ op' = "returned" /\ UNCHANGED <<lo, hi>>
    /\ UNCHANGED <<overflow_checks, input, ranges, merged, remerged, x, answer,
                   panicked, overflowed, visited, counted, counted2>>
    /\ UNCHANGED rest_vars

\* the loop condition fails: false
SearchExhausted ==
    /\ op = "search"
    /\ lo >= hi
    /\ found' = FALSE
    /\ op' = "returned"
    /\ UNCHANGED <<overflow_checks, input, ranges, merged, remerged, x, answer,
                   panicked, overflowed, lo, hi, visited, counted, counted2>>
    /\ UNCHANGED rest_vars

NextSearch == SearchStep \/ SearchExhausted

SpecSearch == InitSearch /\ [][NextSearch]_vars /\ WF_vars(NextSearch)

----------------------------------------------------------------------------
(* Reference notions the claims are stated with *)

\* the integers a range list covers
Covered(rs) == UNION {rs[i].start .. rs[i].end : i \in 1..Len(rs)}

\* some range of the list contains v (the linear scan of day5.rs)
Contains(v, rs) == is_fresh(v, AsTuples(rs))

\* sorted ascending by start, no two neighbours overlapping or adjacent
Coalesced(rs) ==
    \A i \in 1..(Len(rs) - 1) :
        /\ rs[i].start <= rs[i + 1].start
        /\ rs[i + 1].start > rs[i].end + 1

\* every range of the list has start <= end
Proper(rs) == \A i \in 1..Len(rs) : rs[i].start <= rs[i].end

\* the integers a list of (start, end) tuples covers
CoveredTuples(rs) == UNION {rs[i][1] .. rs[i][2] : i \in 1..Len(rs)}

\* the decimal string of v has even length and equal halves
IsExactDouble(v) ==
    LET s == to_string(v)
        h == Len(s) \div 2
    IN  Len(s) % 2 = 0 /\ SubSeq(s, 1, h) = SubSeq(s, h + 1, Len(s))

ExactDoubles == {v \in 0..WordMax : IsExactDouble(v)}

MultiRepeats == {v \in 0..WordMax : is_invalid_part2(v)}

\* the exact sum of a finite set of numbers
SumSet(S) == Total(Ascending(S), 1, Cardinality(S))

----------------------------------------------------------------------------
(* Claims C1 - C4: merge_ranges and in_merged_ranges on a raw range list *)

\* C1 (as claimed), on lists of ranges with start <= end: for every raw range
\* list R and every value x, in_merged_ranges(x, merge_ranges(R)) is true
\* exactly when some range of R contains x, the answer of the linear scan
\* is_fresh(x, R).
C1_MembershipCorrect ==
    (op = "in_merged_ranges" /\ Proper(ranges)) =>
        (found <=> Contains(x, ranges))

\* C2 (as claimed): for every raw range list R, merge_ranges(R) of day 2 and
\* of day 5 gives a set, and the integers that set covers are exactly the
\* integers the ranges of R cover.
C2_CoverageEquivalence ==
    op \in {"merge_ranges", "day5_merge_ranges"} =>
        (~panicked /\ Covered(merged) = Covered(ranges))

\* C3 (as claimed), on the calls that return and on lists of ranges with
\* start <= end: the result of merge_ranges is sorted by start and no two
\* neighbours overlap or touch, also when a range ends at the largest value.
C3_MergedInvariant ==
    (op \in {"merge_ranges", "day5_merge_ranges"} /\ ~panicked
        /\ Proper(ranges)) => Coalesced(merged)

\* C4: merging a merged set, with day 2's merge_ranges or with day 5's,
\* completes and returns the identical sequence. (A first merge that aborts
\* leaves no set: both sides of the claimed equality abort alike.)
C4_Idempotent ==
    op \in {"merge_again", "day5_merge_again"} =>
        (~panicked /\ remerged = merged)

\* C4 witness: the second merge of a set of two ranges that the first merge
\* made of three proper ranges
C4_Witness ==
    /\ op = "merge_again"
    /\ Len(ranges) = 3 /\ Len(merged) = 2 /\ Len(remerged) = 2
    /\ \A i \in 1..3 : ranges[i].start <= ranges[i].end

----------------------------------------------------------------------------
(* Claims C5 - C9: the solve functions on an input text (SpecSolve) *)

\* C5 (as claimed): for every parsed range list, sum_invalid_ids returns the
\* sum of the integers of the union of the ranges whose decimal string is a
\* half repeated twice, each counted once.
C5_ExactDoubleSum ==
    op = "sum_invalid_ids" =>
        (~panicked /\ answer = SumSet(Covered(ranges) \cap ExactDoubles))

\* C6 (as claimed): for every parsed range list, sum_invalid_ids_part2
\* returns the sum of the integers of the union of the ranges that satisfy
\* is_invalid_part2, each counted once.
C6_MultiRepeatSum ==
    op = "sum_invalid_ids_part2" =>
        (~panicked /\ answer = SumSet(Covered(ranges) \cap MultiRepeats))

\* C7 (as claimed): for every list of parsed ranges, the number solve_part2
\* computes is the number of distinct integers some range covers.
C7_CoveredCount ==
    (op = "solve_part2" /\ BlankLineIdx(Lines(input)) # 0) =>
        (~panicked /\ answer = Cardinality(CoveredTuples(ranges)))

\* C8 (as claimed): on every input text the two day 2 aggregators and the two
\* day 5 counts complete with a number; none aborts with a panic.
C8_NeverPanics ==
    op \in {"sum_invalid_ids", "sum_invalid_ids_part2", "solve_part1",
            "solve_part2"} => ~panicked

\* C9 (as claimed): every intermediate value of merge_ranges, of the candidate
\* generator, of the running sums and of the covered count stays within
\* 0..WordMax.
C9_NoOverflow ==
    op \in {"sum_invalid_ids", "sum_invalid_ids_part2", "solve_part2"} =>
        ~overflowed

----------------------------------------------------------------------------
(* Claim C10: malformed tokens (SpecParse) *)

\* what u64::from_str accepts: an optional '+', then digits whose value is
\* at most WordMax
IsNumber(s) ==
    LET d == IF s # <<>> /\ s[1] = "+" THEN Tail(s) ELSE s
    IN  /\ d # <<>>
        /\ \A i \in 1..Len(d) : IsDigit(d[i])
        /\ Total([i \in 1..Len(d) |-> DigitOf(d[i]) * 10^(Len(d) - i)],
                 1, Len(d)) <= WordMax

NumberOf(s) ==
    LET d == IF s # <<>> /\ s[1] = "+" THEN Tail(s) ELSE s
    IN  Total([i \in 1..Len(d) |-> DigitOf(d[i]) * 10^(Len(d) - i)], 1, Len(d))

\* the token without its blanks
Bare(tok) == SelectSeq(tok, LAMBDA c : ~IsWhite(c))

\* a token of the text (a piece between commas) is well formed when, without
\* its blanks, it is <number>-<number>, split at its first '-'
WellFormed(tok) ==
    \E k \in 1..Len(Bare(tok)) :
        /\ Bare(tok)[k] = "-"
        /\ \A j \in 1..(k - 1) : Bare(tok)[j] # "-"
        /\ IsNumber(SubSeq(Bare(tok), 1, k - 1))
        /\ IsNumber(SubSeq(Bare(tok), k + 1, Len(Bare(tok))))

RangeOf(tok) ==
    LET k == FirstIndex(Bare(tok), "-")
    IN  Range(NumberOf(SubSeq(Bare(tok), 1, k - 1)),
              NumberOf(SubSeq(Bare(tok), k + 1, Len(Bare(tok)))))

\* the ranges of the well-formed tokens of a text, in the order of the text
WellFormedRanges(text) ==
    LET toks == SelectSeq(Split(text, ","), WellFormed)
    IN  [i \in 1..Len(toks) |-> RangeOf(toks[i])]

\* the text with every token that is not well formed removed
WithoutMalformed(text) == Join(SelectSeq(Split(text, ","), WellFormed), ",")

----------------------------------------------------------------------------
(* Claims C11 - C12: empty input and the range invariant (SpecSolve) *)

\* C11: a text that yields no parsed range is no error: merge_ranges returns
\* the empty set and both aggregators return 0; and merge_ranges returns the
\* empty set only for the empty list.
C11_EmptyInput ==
    /\ op = "merge_parsed" =>
           ((~panicked /\ merged = <<>>) <=> ranges = <<>>)
    /\ (op \in {"sum_invalid_ids", "sum_invalid_ids_part2"} /\ ranges = <<>>)
           => (~panicked /\ answer = 0)

\* C11 witness: merge_ranges has returned the empty set for a non-empty text
\* of malformed tokens only
C11_Witness ==
    /\ op = "merge_parsed" /\ ~panicked
    /\ input # <<>> /\ ranges = <<>> /\ merged = <<>>

\* C12 (as claimed): every range parse_ranges (day 2) and parse_range (day 5)
\* produce, and every range of the set merge_ranges returns, has
\* start <= end, for every input text.
C12_RangeInvariant ==
    /\ op = "parse_ranges" => Proper(ranges)
    /\ op \in {"solve_part1", "solve_part2"} =>
           \A i \in 1..Len(ranges) : ranges[i][1] <= ranges[i][2]
    /\ (op = "merge_parsed" /\ ~panicked) => Proper(merged)

----------------------------------------------------------------------------
(* Claim C13: the pattern predicate (SpecPred) *)

\* some p in 1..len/2 divides len, and every block of p characters of s
\* equals the first
RepeatsBlock(s) ==
    \E p \in 1..(Len(s) \div 2) :
        /\ Len(s) % p = 0
        /\ \A k \in 0..((Len(s) \div p) - 1) :
               SubSeq(s, k * p + 1, k * p + p) = SubSeq(s, 1, p)

\* C13: is_invalid_part2(n) is true exactly when the decimal string of n is
\* a block of p characters repeated, for a p in 1..len/2 that divides len;
\* it is false for a single digit and for 1234, true for 111, 1212121212
\* and 12341234.
C13_MultiRepeatPredicate ==
    op = "is_invalid_part2" =>
        /\ found <=> RepeatsBlock(to_string(x))
        /\ x < 10 => ~found
        /\ x = 1234 => ~found
        /\ x \in {111, 1212121212, 12341234} => found

\* C13 witness: the predicate has found the pattern 12 five times
C13_Witness == op = "is_invalid_part2" /\ x = 1212121212 /\ found

----------------------------------------------------------------------------
(* Claim C14: whitespace (SpecSpace) *)

\* C14 (as claimed): a whitespace character (space, newline, tab, carriage
\* return) put in at any position of the text leaves the list parse_ranges
\* returns unchanged.
C14_WhitespaceInsensitive ==
    [][op' = "parse_spaced" => ranges' = ranges]_vars

----------------------------------------------------------------------------
(* Claim C15: the order of the raw list (SpecOrder) *)

\* C15 (as claimed), on lists of ranges with start <= end: merge_ranges on a
\* permutation of the raw list returns what it returns on the list, for
\* day 2's merge and for day 5's.
C15_OrderIndependent ==
    (op \in {"merge_permuted", "day5_merge_permuted"} /\ Proper(ranges)) =>
        (~panicked /\ remerged = merged)

----------------------------------------------------------------------------
(* Claim C20: the merge of day 2 and the merge of day 5 (SpecOrder) *)

\* C20 (as claimed), on lists of ranges with start <= end: on the raw list
\* day 2's merge_ranges has merged, day 5's merge_ranges returns the same
\* sequence of (start, end) pairs.
C20_MergesEquivalent ==
    (op = "day5_merge_same" /\ Proper(ranges)) =>
        (~panicked /\ remerged = merged)

----------------------------------------------------------------------------
(* Claims C16 and C18: the candidates of sum_invalid_ids (SpecSolve) *)

\* C16 (as claimed): for each length the visit of the first halves stops as
\* soon as a doubled value t * 10^half + t exceeds max_upper: no visited t
\* comes after a t of its length whose doubled value exceeds max_upper, also
\* where the doubled value does not fit the word.
C16_EarlyTermination ==
    op = "sum_invalid_ids" =>
        \A c \in visited :
            \A u \in PowU64(c[1] - 1).val..(c[2] - 1) :
                u * 10^c[1] + u <= MaxEnd(merged)

\* the numbers of a sequence
Elements(seq) == {seq[i] : i \in 1..Len(seq)}

\* C18 (as claimed): every number sum_invalid_ids adds satisfies
\* is_invalid_part2, and on every input text the numbers part 1 counts are
\* among the numbers part 2 counts.
C18_DoubleIsRepeat ==
    /\ op = "sum_invalid_ids" =>
           \A v \in Elements(counted) : is_invalid_part2(v)
    /\ op = "sum_invalid_ids_part2" =>
           Elements(counted) \subseteq Elements(counted2)

----------------------------------------------------------------------------
(* Claim C17: the tokens parse_ranges accepts (SpecParse) *)

\* one or more characters, each a decimal digit
DigitsOnly(h) == h # <<>> /\ \A i \in 1..Len(h) : IsDigit(h[i])

\* the token of a comma-separated part, split at its first '-', has two
\* halves of digits only
StrictToken(p) ==
    LET part == Trim(p)
        k    == FirstIndex(part, "-")
    IN  /\ k # 0
        /\ DigitsOnly(SubSeq(part, 1, k - 1))
        /\ DigitsOnly(SubSeq(part, k + 1, Len(part)))

\* C17 (as claimed): parse_ranges emits a range for a token only when both
\* halves of the token consist solely of decimal digits: the list it returns
\* is the list it returns on the tokens of that form alone.
C17_AcceptanceRule ==
    op = "parse_ranges" =>
        ranges = ParseParts(SelectSeq(Split(Cleaned(input), ","),
                                      StrictToken), 1)

----------------------------------------------------------------------------
(* Claim C19: the loop of in_merged_ranges (SpecSearch) *)

\* C19: on every slice and for every x, each probe of in_merged_ranges reads
\* an index in [0, len), each iteration that does not return makes hi - lo
\* strictly smaller, and the function returns (true, or false when the
\* interval is exhausted).
C19_SearchTerminates ==
    /\ []((op = "search" /\ lo < hi) => (0 <= Mid /\ Mid < Len(ranges)))
    /\ [][op' = "search" => hi' - lo' < hi - lo]_vars
    /\ <>(op = "returned")

\* C19 witness: the search of a slice of three ranges has exhausted the
\* interval after probing the right half
C19_Witness ==
    /\ op = "returned" /\ ~found
    /\ Len(ranges) = 3 /\ lo = 3 /\ hi = 3

----------------------------------------------------------------------------
(* day4.rs: the rolls of paper ('@') a forklift can take off the grid.     *)
(* A grid is a sequence of rows, a row a sequence of characters; the       *)
(* source's indices count from 0, so grid[row][col] of the source is       *)
(* g[row + 1][col + 1] here.                                               *)

\* grids of the day-4 specification have at most MaxGridRows rows
MaxGridRows == 2
\* and rows of at most MaxGridCols characters
MaxGridCols == 3

\* parse_grid: the characters of every line that is not blank
parse_grid(s) == SelectSeq(Lines(s), LAMBDA line : Trim(line) # <<>>)

\* the eight (dr, dc) of count_adjacent_rolls
directions ==
    << <<-1, -1>>, <<-1, 0>>, <<-1, 1>>,
       <<0, -1>>,             <<0, 1>>,
       <<1, -1>>,  <<1, 0>>,  <<1, 1>> >>

\* grid[row][col] with row < rows and col < cols = grid[0].len() indexes past
\* the end of a row shorter than the first one: the scan of a round panics
IndexPanics(g) == \E r \in 1..Len(g) : Len(g[r]) < Len(g[1])

\* mutant of count_adjacent_rolls: the four diagonal directions are left out
count_adjacent_rolls_orthogonal(g, row, col) ==
    LET rows == Len(g)
        cols == Len(g[1])
    IN  Cardinality({i \in {2, 4, 5, 7} :
            LET new_row == row + directions[i][1]
                new_col == col + directions[i][2]
            IN  /\ new_row >= 0 /\ new_row < rows
                /\ new_col >= 0 /\ new_col < cols
                /\ g[new_row + 1][new_col + 1] = "@"})

\* count_adjacent_rolls(grid, row, col), for a grid whose scan does not panic
count_adjacent_rolls(g, row, col) ==
    LET rows == Len(g)
        cols == Len(g[1])
    IN  Cardinality({i \in 1..Len(directions) :
            LET new_row == row + directions[i][1]
                new_col == col + directions[i][2]
            IN  /\ new_row >= 0 /\ new_row < rows
                /\ new_col >= 0 /\ new_col < cols
                /\ g[new_row + 1][new_col + 1] = "@"})

\* the vector accessible of one round, as the set of its (row, col)
accessible(g) ==
    {rc \in (0..(Len(g) - 1)) \X (0..(Len(g[1]) - 1)) :
        /\ g[rc[1] + 1][rc[2] + 1] = "@"
        /\ count_adjacent_rolls(g, rc[1], rc[2]) < 4}

\* for (row, col) in &accessible { grid[*row][*col] = '.' }
remove_accessible(g) ==
    LET acc == accessible(g)
    IN  [r \in 1..Len(g) |->
            [c \in 1..Len(g[r]) |->
                IF <<r - 1, c - 1>> \in acc THEN "." ELSE g[r][c]]]

\* the rows of a grid as a text, one line each
RECURSIVE GridText(_)
GridText(g) ==
    IF g = <<>> THEN <<>>
    ELSE IF Len(g) = 1 THEN g[1]
    ELSE g[1] \o <<"\n">> \o GridText(Tail(g))

GridRows == UNION {[1..n -> {"@", "."}] : n \in 1..MaxGridCols}

\* a block of rolls one roll deep around a full core: what is left of it
\* after its corners are gone is a fixpoint that is not empty
RingGrids ==
    {[r \in 1..4 |-> [c \in 1..4 |->
          IF r \in {1, 4} /\ c \in {1, 4}
          THEN corner[<<r, c>>] ELSE "@"]] :
        corner \in [{1, 4} \X {1, 4} -> {"@", "."}]}

GridInputs ==
    {<<>>} \cup UNION {[1..n -> GridRows] : n \in 1..MaxGridRows} \cup RingGrids

\* count_removable_rolls(input) after let mut grid = parse_grid(input):
\* the grid is the parse of the input text
InitRolls ==
    /\ overflow_checks \in BOOLEAN
    /\ \E g \in GridInputs :
           /\ input = GridText(g)
           /\ grid = parse_grid(GridText(g))
    /\ ranges = <<>>
    /\ merged = <<>>
    /\ remerged = <<>>
    /\ x = 0
    /\ found = FALSE
    /\ answer = 0
    /\ op = "init"
    /\ panicked = FALSE
    /\ overflowed = FALSE
    /\ lo = 0
    /\ hi = 0
    /\ visited = {}
    /\ counted = <<>>
    /\ counted2 = <<>>
    /\ total_removed = 0
    /\ dial = <<>>
    /\ digits_in = <<>>
    /\ k_in = 0
    /\ app = <<>>
    /\ run_result = Running

day4_idle == <<overflow_checks, input, ranges, merged, remerged, x, found,
               overflowed, lo, hi, visited, counted, counted2,
               dial, digits_in, k_in, app, run_result>>

\* if grid.is_empty() { return 0; } ... let mut total_removed = 0;
StartRemoval ==
    /\ op = "init"
    /\ total_removed' = 0
    /\ op' = IF grid = <<>> THEN "returned" ELSE "loop"
    /\ UNCHANGED <<grid, answer, panicked>>
    /\ UNCHANGED day4_idle

\* one iteration of the loop that finds rolls to remove
RemoveRound ==
    /\ op = "loop"
    /\ ~IndexPanics(grid)
    /\ accessible(grid) # {}
    /\ grid' = remove_accessible(grid)
    /\ total_removed' = total_removed + Cardinality(accessible(grid))
    /\ UNCHANGED <<op, answer, panicked>>
    /\ UNCHANGED day4_idle

\* the iteration that finds none: break, and total_removed is returned
RemovalDone ==
    /\ op = "loop"
    /\ ~IndexPanics(grid)
    /\ accessible(grid) = {}
    /\ answer' = total_removed
    /\ op' = "returned"
    /\ UNCHANGED <<grid, total_removed, panicked>>
    /\ UNCHANGED day4_idle

\* the iteration whose scan indexes past the end of a short row
RemovalPanics ==
    /\ op = "loop"
    /\ IndexPanics(grid)
    /\ panicked' = TRUE
    /\ op' = "panicked"
    /\ UNCHANGED <<grid, total_removed, answer>>
    /\ UNCHANGED day4_idle

NextRolls == StartRemoval \/ RemoveRound \/ RemovalDone \/ RemovalPanics

\* the loop runs on: an enabled iteration is eventually taken
SpecRolls == InitRolls /\ [][NextRolls]_vars /\ WF_vars(NextRolls)

----------------------------------------------------------------------------
(* C21 *)

\* every row of g is as long as the first
Rectangular(g) == \A r \in 1..Len(g) : Len(g[r]) = Len(g[1])

\* the positions of g, counted from 1
Cells(g) == UNION {{r} \X (1..Len(g[r])) : r \in 1..Len(g)}

\* the rolls of g
Rolls(g) == {rc \in Cells(g) : g[rc[1]][rc[2]] = "@"}

Abs(n) == IF n < 0 THEN -n ELSE n

\* the rolls next to position rc, diagonals included
Adjacent(rolls, rc) ==
    {n \in rolls :
        /\ n # rc
        /\ Abs(n[1] - rc[1]) <= 1
        /\ Abs(n[2] - rc[2]) <= 1}

\* the rolls of g with fewer than 4 rolls next to them
Loose(g) ==
    LET rolls == Rolls(g)
    IN  {rc \in rolls : Cardinality(Adjacent(rolls, rc)) < 4}

\* the '@' of a text
RollsOfText(s) == {i \in 1..Len(s) : s[i] = "@"}

\* C21: on a rectangular grid the loop of count_removable_rolls terminates;
\* a round takes off, all at once, exactly the rolls that had fewer than 4
\* rolls next to them when the round began; when the loop stops no roll that
\* is left has fewer than 4 rolls next to it, and the total returned is the
\* number of rolls of the input minus the number of rolls left.
C21_RemovalFixpoint ==
    /\ Rectangular(grid) ~> (op = "returned")
    /\ [][(op = "loop" /\ Rectangular(grid)) =>
             LET loose == Loose(grid)
             IN  /\ Rolls(grid') = Rolls(grid) \ loose
                 /\ (op' = "loop") = (loose # {})
                 /\ total_removed' - total_removed = Cardinality(loose)]_vars
    /\ []((op = "returned" /\ Rectangular(grid)) =>
             /\ Loose(grid) = {}
             /\ answer = Cardinality(RollsOfText(input))
                           - Cardinality(Rolls(grid)))

\* C21 witness: the loop has stopped after taking rolls off, and rolls are
\* left on the grid
C21_Witness ==
    /\ op = "returned" /\ ~panicked
    /\ answer > 0
    /\ Rolls(grid) # {}

----------------------------------------------------------------------------
(* day1.rs: the dial of the combination lock.  pos, zero_hits and dist are *)
(* i32 in the source; the word is scaled down to IntBits bits, so an i32   *)
(* value is a value of I32Min..I32Max here.                                *)

\* width of the machine word that stands for i32
IntBits == 9
\* the input of the day-1 specification has at most MaxInstrs lines
MaxInstrs == 2

I32Max == 2^(IntBits - 1) - 1
I32Min == -(2^(IntBits - 1))
I32Mod == 2^IntBits

\* two's complement wrap of an exact result into I32Min..I32Max
WrapI32(n) == ((n - I32Min) % I32Mod) + I32Min

\* i32 addition and subtraction: the wrapped result, and whether the exact
\* one left I32Min..I32Max
AddI32(a, b) == [val |-> WrapI32(a + b), ovf |-> a + b > I32Max \/ a + b < I32Min]

SubI32(a, b) == [val |-> WrapI32(a - b), ovf |-> a - b > I32Max \/ a - b < I32Min]

\* the i32 operator %: the remainder has the sign of the dividend
RemI32(a, b) == IF a >= 0 THEN a % b ELSE -((-a) % b)

\* the value of a string of decimal digits
RECURSIVE DecimalValue(_)
DecimalValue(s) ==
    IF s = <<>> THEN 0
    ELSE DecimalValue(SubSeq(s, 1, Len(s) - 1)) * 10 + DigitOf(s[Len(s)])

\* str::parse::<i32>: an optional '+' or '-', then one or more digits, and a
\* value that fits i32
ParseI32(s) ==
    LET signed == s # <<>> /\ s[1] \in {"+", "-"}
        body   == IF signed THEN Tail(s) ELSE s
        val    == IF s # <<>> /\ s[1] = "-"
                  THEN -DecimalValue(body) ELSE DecimalValue(body)
    IN  IF body = <<>> \/ \E i \in 1..Len(body) : ~IsDigit(body[i])
        THEN [ok |-> FALSE, val |-> 0]
        ELSE IF val > I32Max \/ val < I32Min THEN [ok |-> FALSE, val |-> 0]
        ELSE [ok |-> TRUE, val |-> val]

\* a run of solve that has panicked: its locals are gone
Aborted(run) == [run EXCEPT !.panic = TRUE]

\* the part-1 branch: one jump of dist, then ((pos % 100) + 100) % 100
Part1Step(run, dir, dist) ==
    LET moved == IF dir = "L" THEN SubI32(run.pos, dist)
                 ELSE AddI32(run.pos, dist)
        pos   == RemI32(RemI32(moved.val, 100) + 100, 100)
    IN  IF dir \notin {"L", "R"} THEN Aborted(run)
        ELSE IF moved.ovf /\ overflow_checks THEN Aborted(run)
        ELSE [run EXCEPT !.pos = pos,
                         !.zero_hits = IF pos = 0 THEN run.zero_hits + 1
                                       ELSE run.zero_hits]

\* one click of the part-2 branch
Click(run, dir) ==
    LET pos == IF dir = "L"
               THEN (IF run.pos - 1 < 0 THEN 99 ELSE run.pos - 1)
               ELSE (IF run.pos + 1 > 99 THEN 0 ELSE run.pos + 1)
        hits == AddI32(run.zero_hits, 1)
    IN  IF run.panic \/ dir \notin {"L", "R"} THEN Aborted(run)
        ELSE IF pos = 0 /\ hits.ovf /\ overflow_checks THEN Aborted(run)
        ELSE [run EXCEPT !.pos = pos,
                         !.zero_hits = IF pos = 0 THEN hits.val
                                       ELSE run.zero_hits]

\* for _ in 0..dist: n clicks one after the other (the first half of them,
\* then the rest; a panic ends the loop)
RECURSIVE ClickLoop(_, _, _)
ClickLoop(run, dir, n) ==
    IF n <= 0 THEN run
    ELSE IF n = 1 THEN Click(run, dir)
    ELSE LET half == ClickLoop(run, dir, n \div 2)
         IN  IF half.panic THEN half
             ELSE ClickLoop(half, dir, n - n \div 2)

\* the part-2 branch
Part2Step(run, dir, dist) == ClickLoop(run, dir, dist)

\* the body of "for raw_line in input.lines()" on one line
Day1Step(run, raw_line, part2) ==
    LET line == Trim(raw_line)
        dir  == line[1]
        dist == ParseI32(Tail(line))
        next == [run EXCEPT !.line = run.line + 1]
    IN  IF line = <<>> THEN next
        ELSE IF ~dist.ok THEN Aborted(next)
        ELSE IF part2 THEN Part2Step(next, dir, dist.val)
        ELSE Part1Step(next, dir, dist.val)

\* the distances of the sample instructions
DistTexts ==
    {<<"0">>, <<"1">>, <<"5", "0">>, <<"1", "0", "0">>, <<"1", "5", "0">>,
     <<"-", "5", "0">>, to_string(I32Max)}

\* the sample lines: L and R with every sample distance, and two lines that
\* are not instructions
InstrTexts ==
    {<<dir>> \o dist : dir \in {"L", "R"}, dist \in DistTexts}
        \cup {<<"X", "0">>, <<"L">>}

\* the lines of a text, joined by line feeds
RECURSIVE JoinLines(_)
JoinLines(ls) ==
    IF ls = <<>> THEN <<>>
    ELSE IF Len(ls) = 1 THEN ls[1]
    ELSE ls[1] \o <<"\n">> \o JoinLines(Tail(ls))

\* solve(input, false) and solve(input, true) of day 1 on the same input,
\* before the first line: let mut pos: i32 = 50; let mut zero_hits: i32 = 0;
InitDial ==
    /\ overflow_checks \in BOOLEAN
    /\ \E ls \in UNION {[1..n -> InstrTexts] : n \in 0..MaxInstrs} :
           input = JoinLines(ls)
    /\ ranges = <<>>
    /\ merged = <<>>
    /\ remerged = <<>>
    /\ x = 0
    /\ found = FALSE
    /\ answer = 0
    /\ op = "init"
    /\ panicked = FALSE
    /\ overflowed = FALSE
    /\ lo = 0
    /\ hi = 0
    /\ visited = {}
    /\ counted = <<>>
    /\ counted2 = <<>>
    /\ grid = <<>>
    /\ total_removed = 0
    /\ dial = [part2 \in BOOLEAN |->
                  [pos |-> 50, zero_hits |-> 0, line |-> 0, panic |-> FALSE]]
    /\ digits_in = <<>>
    /\ k_in = 0
    /\ app = <<>>
    /\ run_result = Running

\* both runs take the next line of the input; a run that has panicked stays
\* where it stopped
Day1Line ==
    /\ \E part2 \in BOOLEAN :
           ~dial[part2].panic /\ dial[part2].line < Len(Lines(input))
    /\ dial' = [part2 \in BOOLEAN |->
                   IF dial[part2].panic THEN dial[part2]
                   ELSE Day1Step(dial[part2],
                                 Lines(input)[dial[part2].line + 1], part2)]
    /\ op' = "solve"
    /\ UNCHANGED <<overflow_checks, input, ranges, merged, remerged, x, found,
                   answer, panicked, overflowed, lo, hi, visited, counted,
                   counted2>>
    /\ UNCHANGED <<grid, total_removed, digits_in, k_in, app, run_result>>

NextDial == Day1Line

SpecDial == InitDial /\ [][NextDial]_vars

----------------------------------------------------------------------------
(* C22 *)

\* every line of the text is L or R followed by a distance that parses
Instructions(s) ==
    \A i \in 1..Len(Lines(s)) :
        LET line == Lines(s)[i]
        IN  /\ line # <<>>
            /\ line[1] \in {"L", "R"}
            /\ ParseI32(Tail(line)).ok

\* C22: on a sequence of L/R instructions with parsed integer distances,
\* starting from 50, the dial position after each instruction is the same in
\* part-1 mode (one modular jump) and in part-2 mode (click by click), it is
\* within 0..99, and the part-2 zero count is at least the part-1 zero count.
C22_ModesAgree ==
    Instructions(input) =>
        /\ ~dial[FALSE].panic /\ ~dial[TRUE].panic
        /\ dial[FALSE].pos = dial[TRUE].pos
        /\ dial[TRUE].pos \in 0..99
        /\ dial[TRUE].zero_hits >= dial[FALSE].zero_hits

----------------------------------------------------------------------------
(* day3.rs: the largest number k batteries of a bank can show.  A bank is  *)
(* a sequence of digits 0..9; digits[i] of the source is digits[i + 1]     *)
(* here.  The result is a u64, of WordBits bits as everywhere.             *)

\* banks of the day-3 specification have at most MaxDigits digits
MaxDigits == 4

\* the inner loop of find_max_k_digits: the index in start_idx..search_end
\* of the first largest digit, start_idx when the range is empty
MaxIdx(digits, start_idx, search_end) ==
    IF start_idx >= search_end THEN start_idx
    ELSE CHOOSE j \in start_idx..(search_end - 1) :
             /\ \A h \in start_idx..(search_end - 1) : digits[h + 1] <= digits[j + 1]
             /\ \A h \in start_idx..(j - 1) : digits[h + 1] < digits[j + 1]

\* the loop "for i in 0..k" of find_max_k_digits from iteration i on, with
\* the locals result and start_idx; oob: digits[start_idx] is read outside
\* 0..digits.len()
RECURSIVE PickLoop(_, _, _, _, _)
PickLoop(digits, k, i, result, start_idx) ==
    IF i >= k
    THEN [panic |-> FALSE, ovf |-> FALSE, oob |-> FALSE, out |-> result]
    ELSE IF start_idx >= Len(digits)
    THEN [panic |-> TRUE, ovf |-> FALSE, oob |-> TRUE, out |-> 0]
    ELSE LET remaining_needed == k - i - 1
             search_end == Len(digits) - remaining_needed
             max_idx    == MaxIdx(digits, start_idx, search_end)
             max_digit  == digits[max_idx + 1]
             exact      == result * 10 + max_digit
         IN  IF exact > WordMax /\ overflow_checks
             THEN [panic |-> TRUE, ovf |-> TRUE, oob |-> FALSE, out |-> 0]
             ELSE LET rest == PickLoop(digits, k, i + 1, exact % WordMod,
                                       max_idx + 1)
                  IN  [rest EXCEPT !.ovf = rest.ovf \/ exact > WordMax]

\* find_max_k_digits(digits, k)
find_max_k_digits(digits, k) ==
    IF k = 0 \/ digits = <<>>
    THEN [panic |-> FALSE, ovf |-> FALSE, oob |-> FALSE, out |-> 0]
    ELSE IF k > Len(digits)
    THEN [panic |-> FALSE, ovf |-> FALSE, oob |-> FALSE, out |-> 0]
    ELSE PickLoop(digits, k, 0, 0, 0)

\* the part-1 branch of solve on one line: the largest digits[i] * 10 +
\* digits[j] over all i < j, 0 before the first pair
pair_max(digits) ==
    LET pairs == {digits[ij[1]] * 10 + digits[ij[2]] :
                     ij \in {p \in (1..Len(digits)) \X (1..Len(digits)) :
                                p[1] < p[2]}}
    IN  IF pairs = {} THEN 0
        ELSE CHOOSE m \in pairs : \A j \in pairs : j <= m

\* the digit values of the sample banks
DigitVals == {0, 1, 2, 9}

Banks == UNION {[1..n -> DigitVals] : n \in 0..MaxDigits}

\* a call find_max_k_digits(&digits, k), and the part-1 scan of the same line
InitJoltage ==
    /\ overflow_checks \in BOOLEAN
    /\ input = <<>>
    /\ ranges = <<>>
    /\ merged = <<>>
    /\ remerged = <<>>
    /\ x = 0
    /\ found = FALSE
    /\ answer = 0
    /\ op = "init"
    /\ panicked = FALSE
    /\ overflowed = FALSE
    /\ lo = 0
    /\ hi = 0
    /\ visited = {}
    /\ counted = <<>>
    /\ counted2 = <<>>
    /\ grid = <<>>
    /\ total_removed = 0
    /\ dial = <<>>
    /\ digits_in \in Banks
    /\ k_in \in 0..(MaxDigits + 1)
    /\ app = <<>>
    /\ run_result = Running

day3_idle == <<overflow_checks, input, ranges, merged, remerged, x, found,
               lo, hi, visited, counted, counted2,
               grid, total_removed, dial, digits_in, k_in, app, run_result>>

\* let max_joltage = find_max_k_digits(&digits, k)
FindMaxKDigits ==
    /\ op = "init"
    /\ LET r == find_max_k_digits(digits_in, k_in)
       IN  /\ answer' = r.out
           /\ panicked' = r.panic
           /\ overflowed' = r.ovf
    /\ op' = "find_max_k_digits"
    /\ UNCHANGED day3_idle

\* the part-1 branch on the same digits: skipped below 2 digits
PairScan ==
    /\ op = "init"
    /\ Len(digits_in) >= 2
    /\ answer' = pair_max(digits_in)
    /\ op' = "pair_scan"
    /\ UNCHANGED <<panicked, overflowed>>
    /\ UNCHANGED day3_idle

NextJoltage == FindMaxKDigits \/ PairScan

SpecJoltage == InitJoltage /\ [][NextJoltage]_vars

----------------------------------------------------------------------------
(* C23 *)

\* the order-preserving selections of k positions out of n
Selections(n, k) ==
    {f \in [1..k -> 1..n] : \A a \in 1..k, b \in 1..k : a < b => f[a] < f[b]}

\* the number whose decimal digits are d[f[1]], ..., d[f[k]]
RECURSIVE Selected(_, _, _)
Selected(d, f, k) ==
    IF k = 0 THEN 0 ELSE Selected(d, f, k - 1) * 10 + d[f[k]]

\* the largest number k digits of d form when they keep their order
MaxSelected(d, k) ==
    LET numbers == {Selected(d, f, k) : f \in Selections(Len(d), k)}
    IN  CHOOSE m \in numbers : \A n \in numbers : n <= m

----------------------------------------------------------------------------
(* main.rs: the menu of the terminal interface.  app is the App: days (the *)
(* day numbers of its DayInfo list), selected_day (the selection of the    *)
(* ListState: <<>> for None, <<i>> for Some(i), i counted from 0),         *)
(* selected_part and in_part_selection.  run_result is what run_app has    *)
(* returned: kind "running" before it returns, "None" for Ok(None),        *)
(* "Some" for Ok(Some((day, part2))), "Err" for an error of the terminal.  *)

\* discover_days finds the days 1..MaxDay, or some of them
MaxDay == 3

\* the key codes run_app tells apart, and one it does not
KeyCodes == {"q", "Esc", "Up", "k", "Down", "j", "Enter", "Backspace", "Tab"}

\* the day lists of discover_days: some of the days, in ascending order,
\* and at least one (main exits on an empty list)
RECURSIVE Ascend(_, _)
Ascend(S, from) ==
    IF from > MaxDay THEN <<>>
    ELSE IF from \in S THEN <<from>> \o Ascend(S, from + 1)
    ELSE Ascend(S, from + 1)

DayLists == {Ascend(S, 1) : S \in (SUBSET (1..MaxDay)) \ {{}}}

\* App::new(days)
NewApp(days) ==
    [days |-> days,
     selected_day |-> IF days # <<>> THEN <<0>> ELSE <<>>,
     selected_part |-> 0,
     in_part_selection |-> FALSE]

\* mutant of next_day: the selection moves on past the last day
next_day_nowrap(a) ==
    LET i == IF a.selected_day # <<>> THEN a.selected_day[1] + 1 ELSE 0
    IN  [a EXCEPT !.selected_day = <<i>>]

\* App::next_day
next_day(a) ==
    LET i == IF a.selected_day # <<>>
             THEN (IF a.selected_day[1] >= Len(a.days) - 1 THEN 0
                   ELSE a.selected_day[1] + 1)
             ELSE 0
    IN  [a EXCEPT !.selected_day = <<i>>]

\* App::previous_day
previous_day(a) ==
    LET i == IF a.selected_day # <<>>
             THEN (IF a.selected_day[1] = 0 THEN Len(a.days) - 1
                   ELSE a.selected_day[1] - 1)
             ELSE 0
    IN  [a EXCEPT !.selected_day = <<i>>]

\* App::toggle_part
toggle_part(a) == [a EXCEPT !.selected_part = 1 - a.selected_part]

\* App::get_selected_day: <<>> for None, <<number>> for Some(day)
get_selected_day(a) ==
    IF a.selected_day # <<>> /\ a.selected_day[1] < Len(a.days)
    THEN <<a.days[a.selected_day[1] + 1]>> ELSE <<>>

\* run_tui after let mut app = App::new(days), at the call of run_app
InitMenu ==
    /\ overflow_checks \in BOOLEAN
    /\ input = <<>>
    /\ ranges = <<>>
    /\ merged = <<>>
    /\ remerged = <<>>
    /\ x = 0
    /\ found = FALSE
    /\ answer = 0
    /\ op = "init"
    /\ panicked = FALSE
    /\ overflowed = FALSE
    /\ lo = 0
    /\ hi = 0
    /\ visited = {}
    /\ counted = <<>>
    /\ counted2 = <<>>
    /\ grid = <<>>
    /\ total_removed = 0
    /\ dial = <<>>
    /\ digits_in = <<>>
    /\ k_in = 0
    /\ \E days \in DayLists : app = NewApp(days)
    /\ run_result = Running

menu_idle == <<overflow_checks, input, ranges, merged, remerged, x, found,
               answer, panicked, overflowed, lo, hi, visited, counted,
               counted2, grid, total_removed, dial, digits_in, k_in>>

\* one iteration of the loop of run_app that reads a press of the key code:
\* the frame is drawn (the list widget leaves a selection inside the list
\* where it is), then the key is matched
KeyPress(code) ==
    /\ run_result = Running
    /\ op' = code
    /\ IF app.in_part_selection
       THEN IF code \in {"q", "Esc"}
            THEN run_result' = [Running EXCEPT !.kind = "None"]
                 /\ UNCHANGED app
            ELSE IF code \in {"Up", "k", "Down", "j"}
            THEN app' = toggle_part(app) /\ UNCHANGED run_result
            ELSE IF code = "Enter"
            THEN /\ run_result' =
                       IF get_selected_day(app) # <<>>
                       THEN [kind |-> "Some", day |-> get_selected_day(app)[1],
                             part2 |-> (app.selected_part = 1)]
                       ELSE run_result
                 /\ UNCHANGED app
            ELSE IF code = "Backspace"
            THEN app' = [app EXCEPT !.in_part_selection = FALSE]
                 /\ UNCHANGED run_result
            ELSE UNCHANGED <<app, run_result>>
       ELSE IF code \in {"q", "Esc"}
            THEN run_result' = [Running EXCEPT !.kind = "None"]
                 /\ UNCHANGED app
            ELSE IF code \in {"Down", "j"}
            THEN app' = next_day(app) /\ UNCHANGED run_result
            ELSE IF code \in {"Up", "k"}
            THEN app' = previous_day(app) /\ UNCHANGED run_result
            ELSE IF code = "Enter"
            THEN app' = [app EXCEPT !.in_part_selection = TRUE]
                 /\ UNCHANGED run_result
            ELSE UNCHANGED <<app, run_result>>
    /\ UNCHANGED menu_idle

\* terminal.draw(..)? or event::read()? fails: run_app returns the error
TerminalError ==
    /\ run_result = Running
    /\ run_result' = [Running EXCEPT !.kind = "Err"]
    /\ op' = "error"
    /\ UNCHANGED app
    /\ UNCHANGED menu_idle

NextMenu == (\E code \in KeyCodes : KeyPress(code)) \/ TerminalError

SpecMenu == InitMenu /\ [][NextMenu]_vars

----------------------------------------------------------------------------
(* C24 *)

\* C24: for an App created with a non-empty day list, after any sequence of
\* key presses the selected day index is Some(i) with 0 <= i < days.len()
\* (next_day wraps from the last day to 0, previous_day from 0 to the last),
\* selected_part is 0 or 1, and run_app returns a (day, part2) pair only on
\* Enter while in part selection, naming the currently highlighted day.
C24_SelectionValid ==
    /\ [](/\ app.selected_day # <<>>
          /\ app.selected_day[1] \in 0..(Len(app.days) - 1)
          /\ app.selected_part \in {0, 1})
    /\ [][/\ (op' \in {"Down", "j"} /\ ~app.in_part_selection) =>
                app'.selected_day[1] =
                    (app.selected_day[1] + 1) % Len(app.days)
          /\ (op' \in {"Up", "k"} /\ ~app.in_part_selection) =>
                app'.selected_day[1] =
                    (app.selected_day[1] - 1) % Len(app.days)
          /\ (run_result'.kind = "Some") =>
                /\ op' = "Enter"
                /\ app.in_part_selection
                /\ run_result'.day = app.days[app.selected_day[1] + 1]
                /\ run_result'.part2 = (app.selected_part = 1)]_vars

\* C24 witness: run_app has returned part 2 of the last of several days, a
\* day that next_day cannot reach from the first without passing the others
C24_Witness ==
    /\ run_result.kind = "Some"
    /\ run_result.part2
    /\ Len(app.days) >= 2
    /\ run_result.day = app.days[Len(app.days)]

====
